---- MODULE Spec2Model ----
EXTENDS Integers, Sequences, FiniteSets, TLC

(***************************************************************************)
(* Model of the grab request engine (grab/grab.py) and of the spider's     *)
(* in-memory task queue (grab/spider/queue_backend/memory.py).             *)
(*                                                                         *)
(* SpecQueue   : QueueBackend.put / get / size under a wall clock.         *)
(* SpecRequest : Grab.request, its redirect loop and the session jar.      *)
(* SpecClient  : Grab.clone, setup, clear_cookies and __getstate__ /       *)
(*               __setstate__ over clients whose attributes are references.*)
(* SpecDispatcher   : TaskDispatcherService.process_service_result.        *)
(* SpecQueueWorkers : QueueBackend.put / get called by concurrent workers. *)
(* SpecWorkers      : the task generator and dispatcher worker loops under *)
(*                    stop_event and pause_event (fair scheduling).        *)
(* SpecBackpressure : the generator's threshold against a slow dispatcher. *)
(***************************************************************************)

\* ------------------------------------------------------------------ bounds
MaxPuts == 4
MaxRequests == 1
MaxClients == 2
MaxMessages == 2
MaxWorkerPuts == 2
MaxWorkerGets == 3
MaxGen == 2
MaxPauses == 1
LongGen == 201

\* Python's None, and an optional value v, as sequences of length 0 and 1.
None == <<>>
Some(v) == <<v>>

\* priority 1 is the class overdue tasks are promoted into, 2 a later class
Priorities == {1, 2}
\* the clock values; a schedule_time may lie in the past or in the future
Times == {0, 1}
LastTime == CHOOSE t \in Times : \A u \in Times : u <= t
ScheduleTimes == {None} \cup {Some(t) : t \in Times}

VARIABLES
    queue_object,   \* the list inside PriorityQueue, a binary heap of (priority, task)
    schedule_list,  \* list of (schedule_time, task)
    now,            \* the wall clock read by datetime.utcnow()
    puts,           \* history: the put calls in order; task i is the task of put i
    got,            \* history: the tasks returned by get, in order
    get_result      \* history: outcome of the last get: NoGet, RaisedEmpty or Returned(id)

qvars == <<queue_object, schedule_list, now, puts, got, get_result>>

VARIABLES
    config,          \* Grab.config of the client
    cookies,         \* Grab.cookies, the session jar: a set of cookies, one per key
    pc,              \* position of the request call: "idle", "loop", "returned", "raised"
    req,             \* the Request the next exchange sends
    request_kwargs,  \* the request_kwargs dict of the running call
    redir_count,     \* redir_count of the running call
    result,          \* the Document returned by the call
    error,           \* the exception raised by the call
    calls,           \* history: number of request calls made
    first_req,       \* history: the Request sent on the first exchange of the call
    hops,            \* history: redirect answers (with Location) received in the call
    exchanges,       \* history: transport exchanges of the call
    server_set,      \* history: per key, the last cookie the server set in the call
    jar_before       \* history: the jar when the call started

rvars == <<config, cookies, pc, req, request_kwargs, redir_count, result, error,
           calls, first_req, hops, exchanges, server_set, jar_before>>

VARIABLES
    clients,      \* the Grab objects: for each, the addresses of its config and jar
    config_objs,  \* the config dicts, by address
    jar_objs,     \* the CookieJar objects, by address
    client_error, \* the exception the last client operation raised
    origin        \* history: how each client was made

cvars == <<clients, config_objs, jar_objs, client_error, origin>>

VARIABLES
    input_queue,        \* TaskDispatcherService.input_queue: (result, task, meta) triples
    task_queue,         \* the tasks spider.add_task has enqueued, in order
    stat,               \* spider.stat: counter name -> count
    parser_input,       \* spider.parser_service.input_queue: (result, task) pairs
    fatal_error_queue,  \* spider.fatal_error_queue
    parser_errors,      \* history: the calls of spider.process_parser_error
    raised,             \* the exception the last process_service_result call raised
    handled,            \* history: the triples process_service_result was called with
    network_try_limit   \* spider.network_try_limit

dvars == <<input_queue, task_queue, stat, parser_input, fatal_error_queue,
           parser_errors, raised, handled, network_try_limit>>

VARIABLES
    stop_event,     \* worker.stop_event, set for both workers at shutdown
    pause_event,    \* worker.pause_event
    d_pc,           \* position of the dispatcher's worker_callback
    d_msg,          \* the triple the dispatcher took from its input_queue
    g_pc,           \* position of the generator's worker_callback
    g_batch,        \* iterations left in the generator's for loop
    gen_len,        \* number of tasks the user generator yields
    gen_pos,        \* number of tasks pulled from the user generator so far
    thread_number,  \* spider.thread_number
    queue_backlog,  \* tasks in spider.task_queue that other services put there before
    pauses,         \* history: number of times pause_event was set
    d_after_stop,   \* history: messages the dispatcher processed after stop_event was set
    g_after_stop    \* history: pull batches the generator began after stop_event was set

gvars == <<stop_event, pause_event, d_pc, d_msg, g_pc, g_batch, gen_len, gen_pos,
           thread_number, queue_backlog, pauses, d_after_stop, g_after_stop>>

VARIABLES
    w_pc,       \* position of each queue worker inside QueueBackend.get
    w_now,      \* `now` of each worker's running get
    w_index,    \* `index` of each worker's running get
    w_removed,  \* `removed_indexes` of each worker's running get
    w_list,     \* the list object each worker's for loop iterates: None while it is
                \* still self.schedule_list, its contents once it was replaced
    w_rebuilt,  \* the list each worker's comprehension has built, not yet assigned
    w_calls     \* history: number of get calls the workers have begun

wvars == <<w_pc, w_now, w_index, w_removed, w_list, w_rebuilt, w_calls>>

svars == <<dvars, gvars, wvars>>

vars == <<qvars, rvars, cvars, svars>>

\* ================================================================== Grab
\* ---- values
Hosts == {"a.test", "b.test"}
Url(host, path) == [host |-> host, path |-> path]
StartUrl == Url("a.test", "/")

\* Location header values: absent, a relative path, or an absolute URL
Locations ==
    {None, Some(<<"rel", "/next">>)} \cup {Some(<<"abs", h, "/">>) : h \in Hosts}

\* grab.py line 126
RedirectCodes == {301, 302, 303, 307, 308}
Codes == {200} \cup RedirectCodes

\* cookies: the jar holds at most one cookie per (domain, path, name)
CookiePaths == {"/", "/p"}
Cookie(domain, path, name, value) ==
    [domain |-> domain, path |-> path, name |-> name, value |-> value]
Key(c) == <<c.domain, c.path, c.name>>
\* cookies a server sets, and the cookies mapping given with a request
ServerCookies == {Cookie(h, "/", "sid", "srv") : h \in Hosts}
RequestCookies == {None, Some({[name |-> "sid", value |-> "req"]})}

\* CookieJar.set_cookie: insertion replaces the entry with the same key
set_cookie(jar, c) == {x \in jar : Key(x) # Key(c)} \cup {c}

\* create_cookie(name, value, domain): the path defaults to "/"
create_cookie(name, value, domain) == Cookie(domain, "/", name, value)

\* the answers of a server: status code, Location header, Set-Cookie headers
Responses ==
    [code : Codes, location : Locations,
     cookies : {<<>>} \cup {<<c>> : c \in ServerCookies}]

\* ---- Request
\* Request.init_keys
RequestKeys ==
    {"url", "method", "headers", "body", "cookies", "proxy", "timeout",
     "follow_location", "redirect_limit"}

\* Request's default for redirect_limit
DefaultRedirectLimit == 2

\* Request.create_from_mapping(cfg) -> Request(**cfg)
create_from_mapping(cfg) ==
    [url |-> cfg.url[1],
     method |-> cfg.method[1],
     headers |-> cfg.headers,
     body |-> cfg.body,
     proxy |-> cfg.proxy,
     timeout |-> cfg.timeout,
     cookies |-> IF cfg.cookies = None THEN {} ELSE cfg.cookies[1],
     follow_location |-> cfg.follow_location[1],
     redirect_limit |-> IF cfg.redirect_limit = None
                        THEN DefaultRedirectLimit ELSE cfg.redirect_limit[1]]

\* the keyword arguments a caller passes to Grab.request
Passed(m, h, b, p, t, c, f, l) ==
    [k \in RequestKeys \ {"url"} |->
        CASE k = "method" -> m
          [] k = "headers" -> h
          [] k = "body" -> b
          [] k = "proxy" -> p
          [] k = "timeout" -> t
          [] k = "cookies" -> c
          [] k = "follow_location" -> f
          [] k = "redirect_limit" -> l]

\* headers, body, proxy and timeout: all left out, or all given
PassedThrough == {<<None, None, None, None>>, <<Some("H"), Some("B"), Some("P"), Some(5)>>}

KwargsInputs ==
    {Passed(m, hb[1], hb[2], hb[3], hb[4], c, f, l) :
        m \in {None, Some("POST")},
        hb \in PassedThrough,
        c \in RequestCookies,
        f \in {None, Some(FALSE)},
        l \in {None, Some(0), Some(1)}}

\* a keyword that is not in Request.init_keys
WithUnknownKey(kwargs) == ("bogus" :> Some("x")) @@ kwargs

\* request_kwargs["url"] = url
WithUrl(kwargs, url) == ("url" :> Some(url)) @@ kwargs

\* Request objects a caller builds itself (as submit does from a form)
RequestObjects ==
    {[url |-> StartUrl, method |-> m, headers |-> hb[1], body |-> hb[2],
      proxy |-> hb[3], timeout |-> hb[4],
      cookies |-> IF c = None THEN {} ELSE c[1],
      follow_location |-> f, redirect_limit |-> l] :
        m \in {"GET", "POST"},
        hb \in PassedThrough,
        c \in RequestCookies,
        f \in BOOLEAN,
        l \in {0, 1}}

NoRequest == [url |-> StartUrl, method |-> "", headers |-> None, body |-> None,
              proxy |-> None, timeout |-> None, cookies |-> {},
              follow_location |-> FALSE, redirect_limit |-> 0]

NoDocument == [code |-> 0, location |-> None, cookies |-> <<>>, exchange |-> 0]

\* ---- Grab
\* default_grab_config
default_grab_config == [reuse_cookies |-> TRUE]

\* Grab.merge_request_configs: the keys it rejects, and the merged config
InvalidKeys_none(request_config) == {}

InvalidKeys(request_config) == DOMAIN request_config \ RequestKeys

merge_request_configs(request_config) ==
    [k \in RequestKeys |->
        IF k \in DOMAIN request_config THEN request_config[k] ELSE None]

\* urlsplit(request_url).hostname
hostname(url) == url.host

\* urljoin(req.url, redir_url)
urljoin(base, location) ==
    IF location[1] = "abs" THEN Url(location[2], location[3])
    ELSE Url(base.host, location[2])

\* Grab.update_session_cookies
RECURSIVE update_session_cookies(_, _, _)
update_session_cookies(jar, items, request_url) ==
    IF items = {} THEN jar
    ELSE LET item == CHOOSE x \in items : TRUE
         IN update_session_cookies(
                set_cookie(jar, create_cookie(item.name, item.value, hostname(request_url))),
                items \ {item}, request_url)

\* Grab.prepare_request: raises GrabMisuseError, or gives the Request and
\* the jar with the request's cookies written into it
prepare_request(jar, request_config) ==
    IF InvalidKeys(request_config) # {}
    THEN [error |-> "GrabMisuseError", req |-> NoRequest, jar |-> jar]
    ELSE LET merged == merge_request_configs(request_config)
         IN IF merged.url = None
            THEN [error |-> "GrabMisuseError", req |-> NoRequest, jar |-> jar]
            ELSE LET cfg == [merged EXCEPT
                                !["method"] = IF @ = None \/ @ = Some("")
                                              THEN Some("GET") ELSE @,
                                !["follow_location"] = IF @ = None THEN Some(TRUE) ELSE @]
                     r == create_from_mapping(cfg)
                 IN [error |-> "none", req |-> r,
                     jar |-> update_session_cookies(jar, r.cookies, r.url)]

\* Grab.find_redirect_url
find_redirect_url(doc) ==
    IF doc.code \in RedirectCodes /\ doc.location # None THEN doc.location ELSE None

\* Grab.process_request_result: the jar after the Document's cookies are merged
RECURSIVE store_cookies(_, _)
store_cookies(jar, items) ==
    IF items = <<>> THEN jar ELSE store_cookies(set_cookie(jar, items[1]), Tail(items))

process_request_result(cfg, jar, doc) ==
    IF cfg.reuse_cookies THEN store_cookies(jar, doc.cookies) ELSE jar

\* ---- clients as objects
\* Grab.__slots__
Slots == {"config", "transport", "cookies"}

\* copy_config: a new dict holding a copy of every value
copy_config(cfg) == [x \in DOMAIN cfg |-> cfg[x]]

\* list(self.cookies): the cookies of a jar, one after the other
RECURSIVE list_cookies(_)
list_cookies(jar) ==
    IF jar = {} THEN <<>>
    ELSE LET c == CHOOSE x \in jar : TRUE
         IN <<c>> \o list_cookies(jar \ {c})

\* build_jar(items): a new jar with every item set in it
build_jar(items) == store_cookies({}, items)

\* cookies a client's jar is given by its requests
StoredCookies ==
    {Cookie("a.test", p, "sid", "srv") : p \in CookiePaths}
        \cup {Cookie("a.test", "/", "sid", "req")}

\* Grab(): one client with a default config and an empty jar
ClientsStart ==
    /\ clients = <<[config |-> 1, cookies |-> 1]>>
    /\ config_objs = <<default_grab_config>>
    /\ jar_objs = <<{}>>
    /\ client_error = "none"
    /\ origin = <<"init">>

\* Grab.__init__
ClientStart ==
    /\ config = default_grab_config
    /\ cookies = {}
    /\ pc = "idle"
    /\ req = NoRequest
    /\ request_kwargs = <<>>
    /\ redir_count = 0
    /\ result = NoDocument
    /\ error = "none"
    /\ calls = 0
    /\ first_req = NoRequest
    /\ hops = 0
    /\ exchanges = 0
    /\ server_set = {}
    /\ jar_before = {}

\* ======================================================= spider values
\* ---- exception classes, by class name and the marker classes they derive from
\* a class name is the sequence of its pieces, "_" being a piece of its own
ExcClass(name, integrity, fatal) == [name |-> name, integrity |-> integrity, fatal |-> fatal]
NoClass == ExcClass(<<>>, FALSE, FALSE)
ResponseNotValid == ExcClass(<<"ResponseNotValid">>, TRUE, FALSE)
\* a handler's own marker class, class Data_Not_Found(ResponseNotValid)
DataNotFound == ExcClass(<<"Data", "_", "Not", "_", "Found">>, TRUE, FALSE)
OtherError == ExcClass(<<"ValueError">>, FALSE, FALSE)
FatalError == ExcClass(<<"FatalError">>, FALSE, TRUE)
ExcClasses == {ResponseNotValid, DataNotFound, OtherError, FatalError}

\* ---- tasks
DTask(id, raw) == [id |-> id, raw |-> raw, grab_config |-> "modified", cloned |-> FALSE]
\* the tasks the user generator yields, in order
GenTask(k) == [id |-> k, raw |-> FALSE, grab_config |-> "original", cloned |-> FALSE]

\* Task.clone(): an independent copy of the task
task_clone(t) == [t EXCEPT !.cloned = TRUE]

\* Task.setup_grab_config(backup): the task's request config is the backup again
setup_grab_config(t, backup) == [t EXCEPT !.grab_config = backup]

\* ---- results submitted to the dispatcher
Result(kind, task, cls, has_grab, ok, code) ==
    [kind |-> kind, task |-> task, cls |-> cls, has_grab |-> has_grab,
     ok |-> ok, code |-> code, grab_config_backup |-> "original"]
ResultTask(t) == Result("Task", Some(t), NoClass, FALSE, FALSE, 0)
ResultNone == Result("None", None, NoClass, FALSE, FALSE, 0)
ResultException(cls) == Result("exception", None, cls, FALSE, FALSE, 0)
\* {ok, ..., grab, grab_config_backup}; code is result["grab"].doc.code
ResultNetwork(ok, code) == Result("dict", None, NoClass, TRUE, ok, code)
\* a dict without the "grab" key
ResultDictNoGrab == Result("dict", None, NoClass, FALSE, TRUE, 200)
\* a value of any other type
ResultOther == Result("other", None, NoClass, FALSE, FALSE, 0)

\* ---- meta
MetaParser == Some(("from" :> "parser") @@ ("exc_info" :> "exc_info"))
MetaGenerator == Some(("source" :> "task_generator"))

\* ---- counters
\* str.replace("_", "-") on a class name
replace_underscore(name) == [i \in 1..Len(name) |-> IF name[i] = "_" THEN "-" ELSE name[i]]
SpiderRequest == <<"spider:request">>
CounterNames ==
    {SpiderRequest}
        \cup {<<"integrity:">> \o c.name : c \in ExcClasses}
        \cup {<<"integrity:">> \o replace_underscore(c.name) : c \in ExcClasses}

\* spider.is_valid_network_response_code(code, task)
ValidCodes == {200, 404}
is_valid_network_response_code(code, t) == code \in ValidCodes

\* generator and dispatcher workers before start(); no queue worker is inside get
SpiderIdle ==
    /\ input_queue = <<>>
    /\ task_queue = <<>>
    /\ stat = [n \in CounterNames |-> 0]
    /\ parser_input = <<>>
    /\ fatal_error_queue = <<>>
    /\ parser_errors = <<>>
    /\ raised = "none"
    /\ handled = <<>>
    /\ stop_event = FALSE
    /\ pause_event = FALSE
    /\ d_pc = "check"
    /\ d_msg = None
    /\ g_pc = "check"
    /\ g_batch = 0
    /\ gen_pos = 0
    /\ pauses = 0
    /\ d_after_stop = 0
    /\ g_after_stop = 0
    /\ w_pc = [w \in {1, 2} |-> "idle"]
    /\ w_now = [w \in {1, 2} |-> 0]
    /\ w_index = [w \in {1, 2} |-> 0]
    /\ w_removed = [w \in {1, 2} |-> {}]
    /\ w_list = [w \in {1, 2} |-> None]
    /\ w_rebuilt = [w \in {1, 2} |-> <<>>]
    /\ w_calls = 0

\* a spider with one thread, one network try and an empty task generator
SpiderStart ==
    /\ SpiderIdle
    /\ network_try_limit = 1
    /\ gen_len = 0
    /\ thread_number = 1
    /\ queue_backlog = 0

\* ============================================================ Task ordering
\* Task.__lt__ / Task.__eq__: tasks order by their own priority field
\* (lower = earlier); two tasks of the same priority compare equal.
TaskLess(t1, t2) == t1.priority < t2.priority

TaskEq(t1, t2) == t1.priority = t2.priority

\* Python's comparison of the tuples (priority, task) stored in the heap:
\* the first differing element decides, equal tuples are not less.
ItemLess_reversed(a, b) ==
    IF a.priority # b.priority THEN a.priority > b.priority
    ELSE IF TaskEq(a.task, b.task) THEN FALSE
    ELSE TaskLess(a.task, b.task)

ItemLess(a, b) ==
    IF a.priority # b.priority THEN a.priority < b.priority
    ELSE IF TaskEq(a.task, b.task) THEN FALSE
    ELSE TaskLess(a.task, b.task)

\* ================================================= PriorityQueue (heapq)
\* Positions are 0-based as in heapq; heap[pos + 1] is the element at pos.
RECURSIVE siftdown(_, _, _, _)
siftdown(heap, startpos, pos, newitem) ==
    IF pos > startpos
    THEN LET parentpos == (pos - 1) \div 2
             parent == heap[parentpos + 1]
         IN IF ItemLess(newitem, parent)
            THEN siftdown([heap EXCEPT ![pos + 1] = parent], startpos, parentpos, newitem)
            ELSE [heap EXCEPT ![pos + 1] = newitem]
    ELSE [heap EXCEPT ![pos + 1] = newitem]

RECURSIVE siftup(_, _, _, _)
siftup(heap, startpos, pos, newitem) ==
    LET endpos == Len(heap)
        childpos == 2 * pos + 1
        rightpos == childpos + 1
    IN IF childpos < endpos
       THEN LET c == IF rightpos < endpos
                        /\ ~ItemLess(heap[childpos + 1], heap[rightpos + 1])
                     THEN rightpos ELSE childpos
            IN siftup([heap EXCEPT ![pos + 1] = heap[c + 1]], startpos, c, newitem)
       ELSE siftdown([heap EXCEPT ![pos + 1] = newitem], startpos, pos, newitem)

\* queue_object.put(item): heappush
heappush(heap, item) ==
    LET appended == Append(heap, item)
    IN siftdown(appended, 0, Len(appended) - 1, item)

\* queue_object.get(block=False) on a non-empty queue: heappop,
\* as the pair <<returned item, heap afterwards>>.
heappop(heap) ==
    LET lastelt == heap[Len(heap)]
        rest == SubSeq(heap, 1, Len(heap) - 1)
    IN IF rest # <<>>
       THEN <<rest[1], siftup([rest EXCEPT ![1] = lastelt], 0, 0, lastelt)>>
       ELSE <<lastelt, rest>>

\* ============================================================ QueueBackend
Entry(priority, task) == [priority |-> priority, task |-> task]

Scheduled(schedule_time, task) == [schedule_time |-> schedule_time, task |-> task]

\* memory.py line 26: the test that promotes a scheduled entry
IsDue_always(schedule_time, clock) == TRUE

IsDue(schedule_time, clock) == schedule_time <= clock

\* memory.py lines 25-29: every due entry, in list order, is put at priority 1
RECURSIVE Promote(_, _, _)
Promote(heap, list, clock) ==
    IF list = <<>> THEN heap
    ELSE IF IsDue(list[1].schedule_time, clock)
         THEN Promote(heappush(heap, Entry(1, list[1].task)), Tail(list), clock)
         ELSE Promote(heap, Tail(list), clock)

\* memory.py lines 31-33: the scheduled list without the promoted indexes
RemainingSchedule_keep(list, clock) == list

RECURSIVE RemainingSchedule(_, _)
RemainingSchedule(list, clock) ==
    IF list = <<>> THEN <<>>
    ELSE IF IsDue(list[1].schedule_time, clock)
         THEN RemainingSchedule(Tail(list), clock)
         ELSE <<list[1]>> \o RemainingSchedule(Tail(list), clock)

\* outcomes of a get call
NoGet == <<"none">>
RaisedEmpty == <<"Empty">>
Returned(id) == <<"task", id>>

\* QueueBackend.size
size == Len(queue_object) + Len(schedule_list)

QueueStart ==
    /\ queue_object = <<>>
    /\ schedule_list = <<>>
    /\ now = 0
    /\ puts = <<>>
    /\ got = <<>>
    /\ get_result = NoGet

InitQueue == QueueStart /\ ClientStart /\ ClientsStart /\ SpiderStart

\* QueueBackend.put(task, priority, schedule_time); the task is a fresh Task
\* whose own priority is the priority it is put with.
Put(priority, schedule_time) ==
    /\ Len(puts) < MaxPuts
    /\ LET task == [id |-> Len(puts) + 1, priority |-> priority]
       IN /\ IF schedule_time = None
             THEN /\ queue_object' = heappush(queue_object, Entry(priority, task))
                  /\ UNCHANGED schedule_list
             ELSE /\ schedule_list' = Append(schedule_list, Scheduled(schedule_time[1], task))
                  /\ UNCHANGED queue_object
          /\ puts' = Append(puts, [priority |-> priority, schedule_time |-> schedule_time])
    /\ UNCHANGED <<now, got, get_result>>
    /\ UNCHANGED <<rvars, cvars, svars>>

\* QueueBackend.get, when the heap is empty after promotion: raises Empty
GetEmpty ==
    /\ Promote(queue_object, schedule_list, now) = <<>>
    /\ queue_object' = <<>>
    /\ schedule_list' = RemainingSchedule(schedule_list, now)
    /\ get_result' = RaisedEmpty
    /\ UNCHANGED <<now, puts, got>>
    /\ UNCHANGED <<rvars, cvars, svars>>

\* QueueBackend.get, returning a task
GetTask ==
    LET promoted == Promote(queue_object, schedule_list, now)
    IN /\ promoted # <<>>
       /\ LET popped == heappop(promoted)
          IN /\ queue_object' = popped[2]
             /\ got' = Append(got, popped[1].task.id)
             /\ get_result' = Returned(popped[1].task.id)
       /\ schedule_list' = RemainingSchedule(schedule_list, now)
       /\ UNCHANGED <<now, puts>>
       /\ UNCHANGED <<rvars, cvars, svars>>

\* the wall clock advances
Tick ==
    /\ now < LastTime
    /\ now' = now + 1
    /\ UNCHANGED <<queue_object, schedule_list, puts, got, get_result>>
    /\ UNCHANGED <<rvars, cvars, svars>>

NextQueue ==
    \/ \E p \in Priorities, s \in ScheduleTimes : Put(p, s)
    \/ GetEmpty
    \/ GetTask
    \/ Tick

\* ------------------------------------------------------ queue properties
Ids == 1..Len(puts)

IsReadyPut(i) == puts[i].schedule_time = None

IsScheduledPut(i) == puts[i].schedule_time # None

WasGot(i) == \E k \in 1..Len(got) : got[k] = i

\* task a was returned by an earlier get than task b
GotBefore(a, b) == \E j, k \in 1..Len(got) : j < k /\ got[j] = a /\ got[k] = b

\* the tasks currently held in the ready heap
HeapIds(heap) == {heap[k].task.id : k \in 1..Len(heap)}

\* C1: size() equals the number of puts minus the number of gets that
\* returned a task, after any interleaving of put (ready or scheduled), get
\* and clock ticks; a get that only promotes, or raises Empty, changes neither.
C1_SizeIsPutsMinusGets == size = Len(puts) - Len(got)

\* C1 witness: an overdue scheduled task was promoted and returned, and a later
\* get raised Empty while another scheduled task was still waiting.
C1_Witness ==
    /\ get_result = RaisedEmpty
    /\ schedule_list # <<>>
    /\ \E i \in Ids : IsScheduledPut(i) /\ WasGot(i)
    /\ size = 1

\* C2 (as claimed): for priorities p1 < p2, a task put with p1 before a task
\* put with p2 is returned before that p2 task, scheduled puts included.
C2_PriorityOrderAllPuts ==
    \A a, b \in Ids :
        (a < b /\ puts[a].priority < puts[b].priority /\ WasGot(b)) => GotBefore(a, b)

\* C2 (amended): for priorities p1 < p2, a task put without schedule_time with
\* p1 before a task put without schedule_time with p2 is returned before it.
C2_PriorityOrderReadyPuts ==
    \A a, b \in Ids :
        (/\ a < b
         /\ IsReadyPut(a) /\ IsReadyPut(b)
         /\ puts[a].priority < puts[b].priority
         /\ WasGot(b)) => GotBefore(a, b)

\* C2 witness: a ready task of priority 1 was returned before a ready task of
\* priority 2 put after it, although a third task was returned first and a
\* promoted task sat in the heap.
C2_Witness ==
    /\ Len(got) >= 3
    /\ \E a, b \in Ids :
        /\ a < b /\ IsReadyPut(a) /\ IsReadyPut(b)
        /\ puts[a].priority < puts[b].priority
        /\ GotBefore(a, b)
        /\ got[1] # a
    /\ \E i \in Ids : IsScheduledPut(i) /\ WasGot(i)

\* C3: ready tasks of equal priority are returned in the order they were put.
C3_EqualPriorityFifo ==
    \A a, b \in Ids :
        (/\ a < b
         /\ IsReadyPut(a) /\ IsReadyPut(b)
         /\ puts[a].priority = puts[b].priority
         /\ WasGot(b)) => GotBefore(a, b)

\* what one get call does to the scheduled entries, read at clock value `now`
C4_GetStep ==
    /\ \A k \in 1..Len(schedule_list) :
        LET e == schedule_list[k]
        IN IF now < e.schedule_time
           THEN /\ \E m \in 1..Len(schedule_list') : schedule_list'[m] = e
                /\ e.task.id \notin HeapIds(queue_object')
                /\ get_result' # Returned(e.task.id)
           ELSE /\ \A m \in 1..Len(schedule_list') : schedule_list'[m] # e
                /\ \/ e.task.id \in HeapIds(queue_object')
                   \/ get_result' = Returned(e.task.id)
    /\ (/\ queue_object = <<>>
        /\ \A k \in 1..Len(schedule_list) : now < schedule_list[k].schedule_time)
       => (get_result' = RaisedEmpty /\ schedule_list' = schedule_list)

\* C4: a get at clock value now never returns a task scheduled for a time
\* t > now, leaves it in the scheduled list (raising Empty when nothing is
\* ready), and moves every entry with t <= now to the ready heap, from which
\* it is returned or where it waits.
C4_ScheduledNotEarly == [][(GetEmpty \/ GetTask) => C4_GetStep]_vars

\* C4 witness: a get raised Empty while a scheduled task waited for a later
\* time, and after the clock reached that time a get returned that task.
C4_Witness ==
    /\ now = 1
    /\ Len(puts) = 1
    /\ puts[1].schedule_time = Some(1)
    /\ got = <<1>>
    /\ get_result = Returned(1)

SpecQueue == InitQueue /\ [][NextQueue]_vars

\* ========================================================= Grab.request
\* a finished call's locals are gone once the client is used again
Forget ==
    /\ pc' = "idle"
    /\ req' = NoRequest
    /\ request_kwargs' = <<>>
    /\ redir_count' = 0
    /\ result' = NoDocument
    /\ first_req' = NoRequest
    /\ hops' = 0
    /\ exchanges' = 0
    /\ server_set' = {}
    /\ jar_before' = {}

\* the url and keyword arguments as request() stores them in request_kwargs
CallKwargs(url, kwargs) == IF url # None THEN WithUrl(kwargs, url[1]) ELSE kwargs

\* Grab.request(url, **request_kwargs), up to the start of the redirect loop
RequestCall(url, kwargs) ==
    /\ pc # "loop"
    /\ calls < MaxRequests
    /\ LET prep == prepare_request(cookies, CallKwargs(url, kwargs))
       IN /\ prep.error = "none"
          /\ req' = prep.req
          /\ first_req' = prep.req
          /\ cookies' = prep.jar
    /\ request_kwargs' = CallKwargs(url, kwargs)
    /\ pc' = "loop"
    /\ redir_count' = 0
    /\ result' = NoDocument
    /\ error' = "none"
    /\ calls' = calls + 1
    /\ hops' = 0
    /\ exchanges' = 0
    /\ server_set' = {}
    /\ jar_before' = cookies
    /\ UNCHANGED config
    /\ UNCHANGED <<qvars, cvars, svars>>

\* Grab.request with an unknown keyword or without a URL: prepare_request raises
RequestCallMisuse(url, kwargs) ==
    /\ pc # "loop"
    /\ calls < MaxRequests
    /\ LET prep == prepare_request(cookies, CallKwargs(url, kwargs))
       IN /\ prep.error # "none"
          /\ error' = prep.error
          /\ cookies' = prep.jar
    /\ request_kwargs' = CallKwargs(url, kwargs)
    /\ pc' = "raised"
    /\ req' = NoRequest
    /\ first_req' = NoRequest
    /\ redir_count' = 0
    /\ result' = NoDocument
    /\ calls' = calls + 1
    /\ hops' = 0
    /\ exchanges' = 0
    /\ server_set' = {}
    /\ jar_before' = cookies
    /\ UNCHANGED config
    /\ UNCHANGED <<qvars, cvars, svars>>

\* Grab.request(Request(...)), as submit calls it: the Request is used as it is
RequestObject(r) ==
    /\ pc # "loop"
    /\ calls < MaxRequests
    /\ req' = r
    /\ first_req' = r
    /\ request_kwargs' = <<>>
    /\ pc' = "loop"
    /\ redir_count' = 0
    /\ result' = NoDocument
    /\ error' = "none"
    /\ calls' = calls + 1
    /\ hops' = 0
    /\ exchanges' = 0
    /\ server_set' = {}
    /\ jar_before' = cookies
    /\ UNCHANGED <<config, cookies>>
    /\ UNCHANGED <<qvars, cvars, svars>>

\* transport.prepare_response: the Document of the exchange that got `resp`
Document(resp) ==
    [code |-> resp.code, location |-> resp.location, cookies |-> resp.cookies,
     exchange |-> exchanges + 1]

\* history of one answered exchange
Answered(resp) ==
    /\ exchanges' = exchanges + 1
    /\ hops' = IF resp.code \in RedirectCodes /\ resp.location # None
               THEN hops + 1 ELSE hops
    /\ server_set' = store_cookies(server_set, resp.cookies)
    /\ UNCHANGED <<config, calls, first_req, jar_before>>
    /\ UNCHANGED <<qvars, cvars, svars>>

\* one iteration of the loop that ends with `return doc`
ExchangeReturn(resp) ==
    /\ pc = "loop"
    /\ LET doc == Document(resp)
       IN /\ ~(req.follow_location /\ find_redirect_url(doc) # None)
          /\ cookies' = process_request_result(config, cookies, doc)
          /\ result' = doc
    /\ pc' = "returned"
    /\ UNCHANGED <<req, request_kwargs, redir_count, error>>
    /\ Answered(resp)

\* one iteration of the loop that ends with GrabTooManyRedirectsError
ExchangeTooManyRedirects(resp) ==
    /\ pc = "loop"
    /\ LET doc == Document(resp)
       IN /\ req.follow_location /\ find_redirect_url(doc) # None
          /\ redir_count + 1 > req.redirect_limit
          /\ cookies' = process_request_result(config, cookies, doc)
    /\ redir_count' = redir_count + 1
    /\ pc' = "raised"
    /\ error' = "GrabTooManyRedirectsError"
    /\ UNCHANGED <<req, request_kwargs, result>>
    /\ Answered(resp)

\* one iteration of the loop that follows the redirect: the request is
\* prepared again from request_kwargs with the new url
ExchangeRedirect(resp) ==
    /\ pc = "loop"
    /\ LET doc == Document(resp)
           redir_url == find_redirect_url(doc)
       IN /\ req.follow_location /\ redir_url # None
          /\ redir_count + 1 <= req.redirect_limit
          /\ LET kwargs == WithUrl(request_kwargs, urljoin(req.url, redir_url[1]))
                 prep == prepare_request(
                             process_request_result(config, cookies, doc), kwargs)
             IN /\ request_kwargs' = kwargs
                /\ cookies' = prep.jar
                /\ req' = IF prep.error = "none" THEN prep.req ELSE req
                /\ pc' = IF prep.error = "none" THEN "loop" ELSE "raised"
                /\ error' = prep.error
    /\ redir_count' = redir_count + 1
    /\ UNCHANGED result
    /\ Answered(resp)

\* the transport fails: the error leaves request() wrapped
ExchangeFails ==
    /\ pc = "loop"
    /\ pc' = "raised"
    /\ error' = "TransportError"
    /\ exchanges' = exchanges + 1
    /\ UNCHANGED <<config, cookies, req, request_kwargs, redir_count, result,
                   calls, first_req, hops, server_set, jar_before>>
    /\ UNCHANGED <<qvars, cvars, svars>>

\* Grab.setup(key=val) with a known option
Setup(key, val) ==
    /\ pc # "loop"
    /\ key \in DOMAIN config
    /\ config' = [config EXCEPT ![key] = val]
    /\ error' = "none"
    /\ Forget
    /\ UNCHANGED <<cookies, calls>>
    /\ UNCHANGED <<qvars, cvars, svars>>

\* Grab.setup(key=val) with an unknown option
SetupMisuse(key, val) ==
    /\ pc # "loop"
    /\ key \notin DOMAIN config
    /\ error' = "GrabMisuseError"
    /\ Forget
    /\ UNCHANGED <<config, cookies, calls>>
    /\ UNCHANGED <<qvars, cvars, svars>>

\* Grab.clear_cookies
ClearCookies ==
    /\ pc # "loop"
    /\ cookies' = {}
    /\ error' = "none"
    /\ Forget
    /\ UNCHANGED <<config, calls>>
    /\ UNCHANGED <<qvars, cvars, svars>>


\* the caller goes on with a clone of the client: g = g.clone(**kwargs)
CloneClient(kwargs) ==
    /\ pc # "loop"
    /\ config' = IF kwargs = None THEN copy_config(config)
                 ELSE [copy_config(config) EXCEPT !.reuse_cookies = kwargs[1]]
    /\ cookies' = build_jar(list_cookies(cookies))
    /\ error' = "none"
    /\ Forget
    /\ UNCHANGED calls
    /\ UNCHANGED <<qvars, cvars, svars>>

\* g.clone(bogus=...): the setup call inside clone raises, g stays as it is
CloneClientMisuse ==
    /\ pc # "loop"
    /\ error' = "GrabMisuseError"
    /\ Forget
    /\ UNCHANGED <<config, cookies, calls>>
    /\ UNCHANGED <<qvars, cvars, svars>>

\* ---------------------------------------------------- request properties
\* the request fields a redirect hop is claimed to keep
SameConfig(r1, r2) ==
    /\ r1.method = r2.method
    /\ r1.headers = r2.headers
    /\ r1.body = r2.body
    /\ r1.proxy = r2.proxy
    /\ r1.timeout = r2.timeout
    /\ r1.follow_location = r2.follow_location
    /\ r1.redirect_limit = r2.redirect_limit

InCall == pc \in {"loop", "returned"} \/ (pc = "raised" /\ error # "GrabMisuseError")

\* C5: with follow_location on, a call answered by k redirects and then a
\* non-redirect returns that last document iff k <= redirect_limit, and a
\* call answered by redirects only raises TooManyRedirects after exactly
\* redirect_limit + 1 exchanges; redirect_limit is the one the call was given.
C5_RedirectLimit ==
    (InCall /\ first_req.follow_location) =>
        /\ pc = "loop" => hops <= first_req.redirect_limit
        /\ pc = "returned" =>
              /\ hops <= first_req.redirect_limit
              /\ find_redirect_url(result) = None
              /\ result.exchange = exchanges
              /\ exchanges = hops + 1
        /\ (pc = "raised" /\ error = "GrabTooManyRedirectsError") =>
              /\ hops = first_req.redirect_limit + 1
              /\ exchanges = first_req.redirect_limit + 1

\* C6: with reuse_cookies on, when request returns the jar holds, under each
\* key the server set on some hop, the cookie the server last set there.
C6_ServerCookiesKept ==
    (pc = "returned" /\ config.reuse_cookies) => server_set \subseteq cookies

\* C7: the request sent on every hop has the method, headers, body, proxy,
\* timeout, follow_location and redirect_limit of the first request.
C7_RebuildKeepsConfig ==
    pc = "loop" => SameConfig(req, first_req)

\* C8: cookies given with the request are written under the host of the
\* request URL only: a key for one of them under another host is in the jar
\* only if it was there before the call or the server set it.
C8_RequestCookiesStayOnHost ==
    InCall =>
        \A item \in first_req.cookies, h \in Hosts \ {hostname(first_req.url)} :
            \A c \in cookies :
                Key(c) = <<h, "/", item.name>> =>
                    \/ \E b \in jar_before : Key(b) = Key(c)
                    \/ \E x \in server_set : Key(x) = Key(c)

InitRequest == QueueStart /\ ClientStart /\ ClientsStart /\ SpiderStart

NextRequest ==
    \/ \E url \in {None, Some(StartUrl)}, kwargs \in KwargsInputs :
          \/ RequestCall(url, kwargs)
          \/ RequestCallMisuse(url, kwargs)
          \/ RequestCallMisuse(url, WithUnknownKey(kwargs))
    \/ \E r \in RequestObjects : RequestObject(r)
    \/ \E resp \in Responses :
          \/ ExchangeReturn(resp)
          \/ ExchangeTooManyRedirects(resp)
          \/ ExchangeRedirect(resp)
    \/ ExchangeFails
    \/ \E val \in BOOLEAN : Setup("reuse_cookies", val) \/ SetupMisuse("bogus", val)
    \/ ClearCookies

SpecRequest == InitRequest /\ [][NextRequest]_vars

\* ---- requests, setup and clone calls, right and wrong, on one client
\* keyword arguments with and without cookies and a redirect limit
MisuseKwargs ==
    {Passed(None, None, None, None, None, c, None, l) :
        c \in RequestCookies, l \in {None, Some(0)}}

InitMisuse == QueueStart /\ ClientStart /\ ClientsStart /\ SpiderStart

NextMisuse ==
    \/ \E url \in {None, Some(StartUrl)}, kwargs \in MisuseKwargs :
          \/ RequestCall(url, kwargs)
          \/ RequestCallMisuse(url, kwargs)
          \/ RequestCallMisuse(url, WithUnknownKey(kwargs))
    \/ \E resp \in Responses :
          \/ ExchangeReturn(resp)
          \/ ExchangeTooManyRedirects(resp)
          \/ ExchangeRedirect(resp)
    \/ ExchangeFails
    \/ \E val \in BOOLEAN : Setup("reuse_cookies", val) \/ SetupMisuse("bogus", val)
    \/ ClearCookies
    \/ \E kwargs \in {None, Some(TRUE), Some(FALSE)} : CloneClient(kwargs)
    \/ CloneClientMisuse

SpecMisuse == InitMisuse /\ [][NextMisuse]_vars

\* the calls the claim calls misuse: an unknown keyword, or no URL
MisuseCalls ==
    {<<url, WithUnknownKey(kwargs)>> : url \in {None, Some(StartUrl)}, kwargs \in MisuseKwargs}
        \cup {<<None, kwargs>> : kwargs \in MisuseKwargs}

C17_Step ==
    /\ \A call \in MisuseCalls :
          /\ prepare_request(cookies, CallKwargs(call[1], call[2])).error = "GrabMisuseError"
          /\ ~RequestCall(call[1], call[2])
          /\ RequestCallMisuse(call[1], call[2]) =>
                /\ error' = "GrabMisuseError"
                /\ cookies' = cookies
                /\ pc' = "raised" /\ exchanges' = 0
    /\ \A val \in BOOLEAN :
          /\ "bogus" \notin DOMAIN config
          /\ SetupMisuse("bogus", val) =>
                error' = "GrabMisuseError" /\ config' = config /\ cookies' = cookies
    /\ DOMAIN config' = {"reuse_cookies"}

ClientIds == 1..Len(clients)

\* self.config and self.cookies of client g
Config(g) == config_objs[clients[g].config]

Jar(g) == jar_objs[clients[g].cookies]

\* Grab.clone: the config and jar the new client refers to are new objects
clone_shared(g) == clients[g]

clone(g) == [config |-> Len(config_objs) + 1, cookies |-> Len(jar_objs) + 1]

\* Grab.clone(**kwargs) with no option or a known one
Clone(g, kwargs) ==
    /\ Len(clients) < MaxClients
    /\ clients' = Append(clients, clone(g))
    /\ config_objs' = Append(config_objs,
                             IF kwargs = None THEN copy_config(Config(g))
                             ELSE [copy_config(Config(g)) EXCEPT !.reuse_cookies = kwargs[1]])
    /\ jar_objs' = Append(jar_objs, build_jar(list_cookies(Jar(g))))
    /\ origin' = Append(origin, "clone")
    /\ client_error' = "none"
    /\ UNCHANGED <<qvars, rvars, svars>>

\* Grab.clone(**kwargs) with an unknown option: setup raises, no client is returned
CloneMisuse(g) ==
    /\ client_error' = "GrabMisuseError"
    /\ UNCHANGED <<clients, config_objs, jar_objs, origin>>
    /\ UNCHANGED <<qvars, rvars, svars>>

\* Grab.setup(reuse_cookies=val) on client g: the dict is changed in place
ClientSetup(g, val) ==
    /\ config_objs' = [config_objs EXCEPT ![clients[g].config] =
                          [@ EXCEPT !.reuse_cookies = val]]
    /\ client_error' = "none"
    /\ UNCHANGED <<clients, jar_objs, origin>>
    /\ UNCHANGED <<qvars, rvars, svars>>

\* Grab.setup with an unknown option
ClientSetupMisuse(g) ==
    /\ client_error' = "GrabMisuseError"
    /\ UNCHANGED <<clients, config_objs, jar_objs, origin>>
    /\ UNCHANGED <<qvars, rvars, svars>>

\* self.cookies.set_cookie(item), as a request of client g does
StoreCookie(g, c) ==
    /\ jar_objs' = [jar_objs EXCEPT ![clients[g].cookies] = set_cookie(@, c)]
    /\ client_error' = "none"
    /\ UNCHANGED <<clients, config_objs, origin>>
    /\ UNCHANGED <<qvars, rvars, svars>>

\* Grab.clear_cookies on client g
ClientClearCookies(g) ==
    /\ jar_objs' = [jar_objs EXCEPT ![clients[g].cookies] = {}]
    /\ client_error' = "none"
    /\ UNCHANGED <<clients, config_objs, origin>>
    /\ UNCHANGED <<qvars, rvars, svars>>

\* Grab.__getstate__: every slot but cookies, and the flattened cookie list
getstate_nocookies(g) ==
    ("config" :> Config(g)) @@ ("transport" :> "transport")
        @@ ("_cookies_items" :> <<>>)

getstate(g) ==
    ("config" :> Config(g)) @@ ("transport" :> "transport")
        @@ ("_cookies_items" :> list_cookies(Jar(g)))

\* a state with a key that is neither a slot nor the cookie list
WithUnknownSlot(state) == ("bogus" :> "x") @@ state

\* Grab.__setstate__: ValueError, or the config and jar of the new client
setstate(state) ==
    IF \E key \in DOMAIN state : key # "_cookies_items" /\ key \notin Slots
    THEN [error |-> "ValueError", config |-> default_grab_config, cookies |-> {}]
    ELSE [error |-> "none", config |-> state["config"],
          cookies |-> build_jar(state["_cookies_items"])]

\* pickling client g and unpickling the result into a new client:
\* __setstate__ is given what __getstate__ returned
Pickle(g) ==
    /\ Len(clients) < MaxClients
    /\ setstate(getstate(g)).error = "none"
    /\ clients' = Append(clients, [config |-> Len(config_objs) + 1,
                                   cookies |-> Len(jar_objs) + 1])
    /\ config_objs' = Append(config_objs, setstate(getstate(g)).config)
    /\ jar_objs' = Append(jar_objs, setstate(getstate(g)).cookies)
    /\ origin' = Append(origin, "setstate")
    /\ client_error' = "none"
    /\ UNCHANGED <<qvars, rvars, svars>>

\* __setstate__ is given `state` and raises: no client comes out of it
SetStateFails(state) ==
    /\ setstate(state).error # "none"
    /\ client_error' = setstate(state).error
    /\ UNCHANGED <<clients, config_objs, jar_objs, origin>>
    /\ UNCHANGED <<qvars, rvars, svars>>

\* --------------------------------------------------- client properties
\* client g is used: its config or its jar is changed through it
Mutates(g) ==
    \/ \E val \in BOOLEAN : ClientSetup(g, val)
    \/ \E c \in StoredCookies : StoreCookie(g, c)
    \/ ClientClearCookies(g)

Untouched(h) == Config(h)' = Config(h) /\ Jar(h)' = Jar(h)

C9_Step ==
    /\ \A g \in ClientIds :
          (Clone(g, None) \/ \E val \in BOOLEAN : Clone(g, Some(val))) =>
              /\ \A new \in {Len(clients) + 1} :
                    /\ Jar(new)' = Jar(g)
                    /\ Clone(g, None) => Config(new)' = Config(g)
              /\ \A h \in ClientIds : Untouched(h)
    /\ \A g \in ClientIds :
          Mutates(g) => \A h \in ClientIds \ {g} : Untouched(h)

\* C9: the client clone() makes has the cookies and the config of the
\* original, and setup, cookie insertion or clear_cookies on one client
\* leaves the config and the jar of every other client unchanged.
C9_CloneIndependent == [][C9_Step]_vars

\* C9 witness: a clone and its original whose jars and configs have diverged
C9_Witness ==
    /\ Len(clients) >= 2
    /\ origin[2] = "clone"
    /\ Jar(1) # {} /\ Jar(2) # {} /\ Jar(1) # Jar(2)
    /\ Config(1) # Config(2)

C10_Step ==
    \A g \in ClientIds :
        /\ Pickle(g) =>
              \A new \in {Len(clients) + 1} :
                  /\ Config(new)' = Config(g)
                  /\ Jar(new)' = Jar(g)
                  /\ \A h \in ClientIds : Untouched(h)
        /\ Len(clients) < MaxClients => ENABLED Pickle(g)
        /\ setstate(WithUnknownSlot(getstate(g))).error = "ValueError"
        /\ SetStateFails(WithUnknownSlot(getstate(g))) =>
              client_error' = "ValueError" /\ clients' = clients

\* C10: deserialising what __getstate__ returned gives a client with the
\* config and the cookie set (by domain, path, name, value) of the serialised
\* client; a state with a key that is neither a slot nor the cookie list
\* makes __setstate__ fail with ValueError.
C10_PickleRoundTrip == [][C10_Step]_vars

\* C10 witness: a client restored from a client with a changed config and two
\* cookies of one name, holding the same config and cookies
C10_Witness ==
    /\ Len(clients) >= 2
    /\ origin[2] = "setstate"
    /\ Cardinality(Jar(2)) = 2
    /\ Jar(2) = Jar(1)
    /\ ~Config(2).reuse_cookies
    /\ Config(2) = Config(1)

InitClient == QueueStart /\ ClientStart /\ ClientsStart /\ SpiderStart

NextClient ==
    \/ \E g \in ClientIds : Clone(g, None)
    \/ \E g \in ClientIds, val \in BOOLEAN : Clone(g, Some(val))
    \/ \E g \in ClientIds : CloneMisuse(g)
    \/ \E g \in ClientIds, val \in BOOLEAN : ClientSetup(g, val)
    \/ \E g \in ClientIds : ClientSetupMisuse(g)
    \/ \E g \in ClientIds, c \in StoredCookies : StoreCookie(g, c)
    \/ \E g \in ClientIds : ClientClearCookies(g)
    \/ \E g \in ClientIds : Pickle(g)
    \/ \E g \in ClientIds : SetStateFails(WithUnknownSlot(getstate(g)))

SpecClient == InitClient /\ [][NextClient]_vars

\* ================================================ TaskDispatcherService
\* what one process_service_result call does: the exception it raises, the
\* tasks it hands to spider.add_task, the counters it increments, what it puts
\* on the parser input and the fatal-error channel, its process_parser_error calls
Outcome(exc, add, inc, parser, fatal, perr) ==
    [raised |-> exc, add_task |-> add, inc |-> inc, parser |-> parser,
     fatal |-> fatal, parser_error |-> perr]

Raises(exc) == Outcome(exc, <<>>, <<>>, <<>>, <<>>, <<>>)

\* task_dispatcher.py line 46-47: meta defaults to an empty dict
meta_dict(meta) == IF meta = None THEN <<>> ELSE meta[1]

\* lines 48-49: isinstance(result, Task)
on_task(res) == Outcome("none", <<res.task[1]>>, <<>>, <<>>, <<>>, <<>>)

\* lines 54-55: the counter of an integrity failure
integrity_counter(cls) == <<"integrity:">> \o replace_underscore(cls.name)

\* lines 52-55: isinstance(result, ResponseNotValid)
on_integrity_noclone(res, task) ==
    IF task = None THEN Raises("AttributeError")
    ELSE Outcome("none", <<task[1]>>, <<integrity_counter(res.cls)>>,
                 <<>>, <<>>, <<>>)

on_integrity(res, task) ==
    IF task = None THEN Raises("AttributeError")
    ELSE Outcome("none", <<task_clone(task[1])>>, <<integrity_counter(res.cls)>>,
                 <<>>, <<>>, <<>>)

\* lines 57-61: the handler name reported for the task
handler_name(task) == IF task # None THEN "task_handler" ELSE "NA"

\* lines 56-68: isinstance(result, Exception)
on_exception_always_fatal(res, task, meta) ==
    IF "exc_info" \notin DOMAIN meta_dict(meta) THEN Raises("KeyError")
    ELSE Outcome("none", <<>>, <<>>, <<>>, <<meta_dict(meta)["exc_info"]>>,
                 <<[handler_name |-> handler_name(task), task |-> task,
                    exc_info |-> meta_dict(meta)["exc_info"]]>>)

on_exception(res, task, meta) ==
    IF "exc_info" \notin DOMAIN meta_dict(meta) THEN Raises("KeyError")
    ELSE Outcome("none", <<>>, <<>>, <<>>,
                 IF res.cls.fatal THEN <<meta_dict(meta)["exc_info"]>> ELSE <<>>,
                 <<[handler_name |-> handler_name(task), task |-> task,
                    exc_info |-> meta_dict(meta)["exc_info"]]>>)

\* lines 79-84: is_valid
is_valid_ok_only(res, t) == res.ok

is_valid(res, t) ==
    IF t.raw THEN TRUE
    ELSE IF res.ok THEN is_valid_network_response_code(res.code, t)
    ELSE FALSE

\* lines 74-97: process_network_result
process_network_result_inc_valid(res, task, limit) ==
    IF task = None THEN Raises("AttributeError")
    ELSE IF is_valid(res, task[1])
         THEN Outcome("none", <<>>, <<SpiderRequest>>, <<<<res, task[1]>>>>, <<>>, <<>>)
         ELSE IF limit > 0
              THEN Outcome("none",
                           <<setup_grab_config(task[1], res.grab_config_backup)>>,
                           <<>>, <<>>, <<>>, <<>>)
              ELSE Outcome("none", <<>>, <<>>, <<>>, <<>>, <<>>)

process_network_result(res, task, limit) ==
    IF task = None THEN Raises("AttributeError")
    ELSE IF is_valid(res, task[1])
         THEN Outcome("none", <<>>, <<SpiderRequest>>, <<<<res, task[1]>>>>, <<>>, <<>>)
         ELSE IF limit > 0
              THEN Outcome("none",
                           <<setup_grab_config(task[1], res.grab_config_backup)>>,
                           <<SpiderRequest>>, <<>>, <<>>, <<>>)
              ELSE Outcome("none", <<>>, <<SpiderRequest>>, <<>>, <<>>, <<>>)

\* lines 30-72: process_service_result
process_service_result(res, task, meta, limit) ==
    IF res.kind = "Task" THEN on_task(res)
    ELSE IF res.kind = "None" THEN Outcome("none", <<>>, <<>>, <<>>, <<>>, <<>>)
    ELSE IF res.kind = "exception" /\ res.cls.integrity THEN on_integrity(res, task)
    ELSE IF res.kind = "exception" THEN on_exception(res, task, meta)
    ELSE IF res.kind = "dict" /\ res.has_grab
         THEN process_network_result(res, task, limit)
    ELSE Raises("SpiderError")

\* spider.stat.inc(name) for every name of the sequence
RECURSIVE stat_inc(_, _)
stat_inc(st, names) ==
    IF names = <<>> THEN st
    ELSE stat_inc([st EXCEPT ![names[1]] = @ + 1], Tail(names))

\* the effects of one process_service_result call on the spider
Effects(out) ==
    /\ raised' = out.raised
    /\ task_queue' = task_queue \o out.add_task
    /\ stat' = stat_inc(stat, out.inc)
    /\ parser_input' = parser_input \o out.parser
    /\ fatal_error_queue' = fatal_error_queue \o out.fatal
    /\ parser_errors' = parser_errors \o out.parser_error

Triple(res, task, meta) == [result |-> res, task |-> task, meta |-> meta]

\* a service calls process_service_result(result, task, meta)
ProcessServiceResult(res, task, meta) ==
    /\ Len(handled) < MaxMessages
    /\ Effects(process_service_result(res, task, meta, network_try_limit))
    /\ handled' = Append(handled, Triple(res, task, meta))
    /\ UNCHANGED <<input_queue, network_try_limit>>
    /\ UNCHANGED <<qvars, rvars, cvars, gvars, wvars>>

\* ---- the triples the services submit, well-formed and not
T1 == DTask(1, FALSE)
T2 == DTask(2, TRUE)

DispatcherInputs ==
    {Triple(ResultTask(T1), None, MetaGenerator), Triple(ResultNone, Some(T1), None)}
        \cup {Triple(ResultException(c), t, MetaParser) :
                c \in {ResponseNotValid, DataNotFound}, t \in {None, Some(T1)}}
        \cup {Triple(ResultException(c), t, m) :
                c \in {OtherError, FatalError}, t \in {None, Some(T1)},
                m \in {None, MetaParser}}
        \cup {Triple(ResultNetwork(r[1], r[2]), Some(t), None) :
                r \in {<<TRUE, 200>>, <<TRUE, 500>>, <<FALSE, 0>>}, t \in {T1, T2}}
        \cup {Triple(ResultNetwork(TRUE, 200), None, None),
              Triple(ResultDictNoGrab, Some(T1), None),
              Triple(ResultOther, Some(T1), None)}

InitDispatcher ==
    /\ QueueStart /\ ClientStart /\ ClientsStart /\ SpiderIdle
    /\ network_try_limit \in {0, 2}
    /\ gen_len = 0
    /\ thread_number = 1
    /\ queue_backlog = 0

NextDispatcher ==
    \E m \in DispatcherInputs : ProcessServiceResult(m.result, m.task, m.meta)

SpecDispatcher == InitDispatcher /\ [][NextDispatcher]_vars

\* ------------------------------------------------- dispatcher properties
IsIntegrity(m) == m.result.kind = "exception" /\ m.result.cls.integrity

IsOtherException(m) == m.result.kind = "exception" /\ ~m.result.cls.integrity

HasExcInfo(m) == m.meta # None /\ "exc_info" \in DOMAIN m.meta[1]

IsNetworkRecord(m) == m.result.kind = "dict" /\ m.result.has_grab

\* the result shapes of the classification table
Documented(m) ==
    \/ m.result.kind \in {"Task", "None"}
    \/ IsIntegrity(m) /\ m.task # None
    \/ IsOtherException(m) /\ HasExcInfo(m)
    \/ IsNetworkRecord(m) /\ m.task # None

\* the inputs outside the table
Unclassifiable(m) ==
    \/ IsIntegrity(m) /\ m.task = None
    \/ IsOtherException(m) /\ ~HasExcInfo(m)
    \/ m.result.kind = "dict" /\ ~m.result.has_grab
    \/ m.result.kind = "other"

\* C11: process_service_result is total: a Task, nil, an integrity failure,
\* another exception from the parser or a network record is handled without
\* an exception, and every other input (an exception without exc_info, an
\* integrity failure without a task, a dict without 'grab') raises SpiderError
\* and nothing else.
C11_ClassificationTotal ==
    handled # <<>> =>
        LET m == handled[Len(handled)]
        IN /\ Documented(m) => raised = "none"
           /\ Unclassifiable(m) => raised = "SpiderError"

\* the process_service_result call with triple m
Call(m) == ProcessServiceResult(m.result, m.task, m.meta)

C12_Step(counter(_)) ==
    \A m \in DispatcherInputs :
        (IsIntegrity(m) /\ m.task # None /\ Call(m)) =>
            /\ raised' = "none"
            /\ \E t \in {m.task[1]} :
                  /\ task_queue' = Append(task_queue, [t EXCEPT !.cloned = TRUE])
                  /\ task_queue'[Len(task_queue')] # t
            /\ stat' = [stat EXCEPT ![counter(m.result.cls)] = @ + 1]
            /\ parser_errors' = parser_errors
            /\ fatal_error_queue' = fatal_error_queue
            /\ parser_input' = parser_input

ClassName(cls) == <<"integrity:">> \o cls.name

DashedClassName(cls) ==
    <<"integrity:">> \o [i \in 1..Len(cls.name) |->
                            IF cls.name[i] = "_" THEN "-" ELSE cls.name[i]]

\* C12 (as claimed): for an integrity failure of a task the dispatcher enqueues
\* exactly one clone of the task, increments the counter 'integrity:' + the
\* name of the exception class exactly once, and calls no process_parser_error,
\* writes nothing to the fatal-error channel or the parser input.
C12_IntegrityRetryClassName == [][C12_Step(ClassName)]_vars

\* C12 (amended): the same, the counter being 'integrity:' + the class name
\* with every "_" replaced by "-".
C12_IntegrityRetry == [][C12_Step(DashedClassName)]_vars

\* C12 witness: a clone was enqueued for a failure of class Data_Not_Found
C12_Witness ==
    /\ Len(task_queue) = 1 /\ task_queue[1].cloned
    /\ stat[<<"integrity:", "Data", "-", "Not", "-", "Found">>] = 1
    /\ raised = "none"

C13_Step ==
    \A m \in DispatcherInputs :
        (IsNetworkRecord(m) /\ m.task # None /\ Call(m)) =>
            LET t == m.task[1]
                valid == t.raw \/ (m.result.ok /\ m.result.code \in ValidCodes)
                forwarded == parser_input' = Append(parser_input, <<m.result, t>>)
                requeued == task_queue' =
                    Append(task_queue, [t EXCEPT !.grab_config = m.result.grab_config_backup])
            IN /\ raised' = "none"
               /\ valid => forwarded /\ task_queue' = task_queue
               /\ ~valid => parser_input' = parser_input
               /\ (~valid /\ network_try_limit > 0) => requeued
               /\ (~valid /\ network_try_limit <= 0) => task_queue' = task_queue
               /\ ~(Len(parser_input') > Len(parser_input)
                    /\ Len(task_queue') > Len(task_queue))

\* C13: a network result goes to the parser input iff the task is raw or the
\* result is ok with a valid response code; otherwise it is not forwarded and
\* the task is re-enqueued with its request config restored from
\* grab_config_backup iff network_try_limit > 0; never both.
C13_NetworkRouting == [][C13_Step]_vars

\* C13 witness: one result was forwarded to the parser and another one's task
\* was re-enqueued with the restored config
C13_Witness ==
    /\ Len(handled) = 2
    /\ Len(parser_input) = 1
    /\ Len(task_queue) = 1
    /\ task_queue[1].grab_config = "original"
    /\ \A k \in 1..2 : IsNetworkRecord(handled[k])

C18_Step(excs) ==
    /\ \A m \in excs :
          Call(m) =>
              /\ Len(parser_errors') = Len(parser_errors) + 1
              /\ IF m.result.cls.fatal
                 THEN Len(fatal_error_queue') = Len(fatal_error_queue) + 1
                 ELSE fatal_error_queue' = fatal_error_queue
    /\ \A m \in DispatcherInputs :
          (~IsOtherException(m) /\ Call(m)) => fatal_error_queue' = fatal_error_queue

C19_RequestCounter ==
    stat[SpiderRequest] =
        Cardinality({k \in 1..Len(handled) :
                        IsNetworkRecord(handled[k]) /\ handled[k].task # None})

\* C19 witness: a forwarded and a dropped network result, both counted, the
\* second with no retry left
C19_Witness ==
    /\ stat[SpiderRequest] = 2
    /\ Len(parser_input) = 1
    /\ task_queue = <<>>
    /\ network_try_limit = 0

\* =================================== QueueBackend under concurrent workers
\* the threads that call task_queue.get and task_queue.put; the clock stands
\* still while they run: a schedule_time of 0 is due, one of 1 is not
QueueWorkers == {1, 2}

\* the list the for loop of worker w iterates
ViewOf(w) == IF w_list[w] = None THEN schedule_list ELSE w_list[w][1]

\* memory.py lines 31-33: the entries whose index is not in removed_indexes
Rebuilt(list, removed) ==
    LET keep == {k \in 1..Len(list) : (k - 1) \notin removed}
        F[n \in 0..Len(list)] ==
            IF n = 0 THEN <<>>
            ELSE IF n \in keep THEN Append(F[n - 1], list[n]) ELSE F[n - 1]
    IN F[Len(list)]

\* put called by a thread: PriorityQueue.put and list.append are atomic
WorkerPut(priority, schedule_time) ==
    /\ Len(puts) < MaxWorkerPuts
    /\ Put(priority, schedule_time)

\* lines 21-25: get reads the clock and starts iterating self.schedule_list
GetBegin(w) ==
    /\ w_pc[w] = "idle"
    /\ w_calls < MaxWorkerGets
    /\ w_calls' = w_calls + 1
    /\ w_pc' = [w_pc EXCEPT ![w] = "scan"]
    /\ w_now' = [w_now EXCEPT ![w] = now]
    /\ w_index' = [w_index EXCEPT ![w] = 0]
    /\ w_removed' = [w_removed EXCEPT ![w] = {}]
    /\ w_list' = [w_list EXCEPT ![w] = None]
    /\ UNCHANGED w_rebuilt
    /\ UNCHANGED <<qvars, rvars, cvars, dvars, gvars>>

\* lines 25-29: one iteration of the for loop
GetScan(w) ==
    /\ w_pc[w] = "scan"
    /\ w_index[w] < Len(ViewOf(w))
    /\ LET e == ViewOf(w)[w_index[w] + 1]
       IN IF IsDue(e.schedule_time, w_now[w])
          THEN /\ queue_object' = heappush(queue_object, Entry(1, e.task))
               /\ w_removed' = [w_removed EXCEPT ![w] = @ \cup {w_index[w]}]
          ELSE UNCHANGED <<queue_object, w_removed>>
    /\ w_index' = [w_index EXCEPT ![w] = @ + 1]
    /\ UNCHANGED <<schedule_list, now, puts, got, get_result>>
    /\ UNCHANGED <<w_pc, w_now, w_list, w_rebuilt, w_calls>>
    /\ UNCHANGED <<rvars, cvars, dvars, gvars>>

\* lines 31-33: the for loop is over; the comprehension builds the new list
\* from the list self.schedule_list refers to now
GetRebuild(w) ==
    /\ w_pc[w] = "scan"
    /\ w_index[w] >= Len(ViewOf(w))
    /\ w_rebuilt' = [w_rebuilt EXCEPT ![w] = Rebuilt(schedule_list, w_removed[w])]
    /\ w_pc' = [w_pc EXCEPT ![w] = "assign"]
    /\ UNCHANGED <<w_now, w_index, w_removed, w_list, w_calls>>
    /\ UNCHANGED <<qvars, rvars, cvars, dvars, gvars>>

\* line 31: self.schedule_list = <the new list>; a loop still running over
\* the old list keeps iterating the old list
GetAssign(w) ==
    /\ w_pc[w] = "assign"
    /\ schedule_list' = w_rebuilt[w]
    /\ w_list' = [u \in QueueWorkers |->
                    IF u # w /\ w_pc[u] = "scan" /\ w_list[u] = None
                    THEN Some(schedule_list) ELSE w_list[u]]
    /\ w_pc' = [w_pc EXCEPT ![w] = "pop"]
    /\ UNCHANGED <<queue_object, now, puts, got, get_result>>
    /\ UNCHANGED <<w_now, w_index, w_removed, w_rebuilt, w_calls>>
    /\ UNCHANGED <<rvars, cvars, dvars, gvars>>

\* line 35-36: queue_object.get(block=False) raises Empty or gives the task
GetPop(w) ==
    /\ w_pc[w] = "pop"
    /\ IF queue_object = <<>>
       THEN /\ get_result' = RaisedEmpty
            /\ UNCHANGED <<queue_object, got>>
       ELSE LET popped == heappop(queue_object)
            IN /\ queue_object' = popped[2]
               /\ got' = Append(got, popped[1].task.id)
               /\ get_result' = Returned(popped[1].task.id)
    /\ w_pc' = [w_pc EXCEPT ![w] = "idle"]
    /\ UNCHANGED <<schedule_list, now, puts>>
    /\ UNCHANGED <<w_now, w_index, w_removed, w_list, w_rebuilt, w_calls>>
    /\ UNCHANGED <<rvars, cvars, dvars, gvars>>

InitQueueWorkers == QueueStart /\ ClientStart /\ ClientsStart /\ SpiderStart

NextQueueWorkers ==
    \/ \E p \in Priorities, s \in ScheduleTimes : WorkerPut(p, s)
    \/ \E w \in QueueWorkers : GetBegin(w)
    \/ \E w \in QueueWorkers : GetScan(w)
    \/ \E w \in QueueWorkers : GetRebuild(w)
    \/ \E w \in QueueWorkers : GetAssign(w)
    \/ \E w \in QueueWorkers : GetPop(w)

SpecQueueWorkers == InitQueueWorkers /\ [][NextQueueWorkers]_vars

\* the number of places task i is in: returned by a get, in the heap, in the list
Occurrences(i) ==
    Cardinality({k \in 1..Len(got) : got[k] = i})
        + Cardinality({k \in 1..Len(queue_object) : queue_object[k].task.id = i})
        + Cardinality({k \in 1..Len(schedule_list) : schedule_list[k].task.id = i})

\* C14: when workers call get and put concurrently, once no get is running
\* every task that was put was returned by exactly one get or is still in the
\* queue exactly once: none is lost by the rebuild of the scheduled list, none
\* is promoted twice.
C14_NoTaskLostOrDuplicated ==
    (\A w \in QueueWorkers : w_pc[w] = "idle") => \A i \in Ids : Occurrences(i) = 1

\* ======================================= generator and dispatcher workers
\* task_generator.py line 15
MinThreshold == 200
Max(a, b) == IF a >= b THEN a ELSE b
task_queue_threshold == Max(MinThreshold, thread_number * 2)

\* spider.task_queue.size()
task_queue_size == queue_backlog + Len(task_queue)

\* `while not worker.stop_event.is_set()`
LoopContinues_always(stop) == TRUE

LoopContinues(stop) == ~stop

\* ---- TaskGeneratorService.worker_callback
\* line 20: the loop test
GenCheck ==
    /\ g_pc = "check"
    /\ g_pc' = IF LoopContinues(stop_event) THEN "pause" ELSE "done"
    /\ UNCHANGED <<stop_event, pause_event, d_pc, d_msg, g_batch, gen_len, gen_pos,
                   thread_number, queue_backlog, pauses, d_after_stop, g_after_stop>>
    /\ UNCHANGED <<qvars, rvars, cvars, dvars, wvars>>

\* line 21: worker.process_pause_signal() returns once the worker is not paused
GenPause ==
    /\ g_pc = "pause"
    /\ ~pause_event
    /\ g_pc' = "size"
    /\ UNCHANGED <<stop_event, pause_event, d_pc, d_msg, g_batch, gen_len, gen_pos,
                   thread_number, queue_backlog, pauses, d_after_stop, g_after_stop>>
    /\ UNCHANGED <<qvars, rvars, cvars, dvars, wvars>>

\* lines 22-28 and 37-38: queue_size against the threshold; a batch of
\* threshold - queue_size pulls begins, or the worker sleeps and loops
GenSize ==
    /\ g_pc = "size"
    /\ LET queue_size == Max(task_queue_size, Len(parser_input))
       IN IF queue_size < task_queue_threshold
          THEN /\ g_batch' = task_queue_threshold - queue_size
               /\ g_pc' = "batch"
               /\ g_after_stop' = IF stop_event THEN g_after_stop + 1 ELSE g_after_stop
          ELSE /\ g_pc' = "check"
               /\ UNCHANGED <<g_batch, g_after_stop>>
    /\ UNCHANGED <<stop_event, pause_event, d_pc, d_msg, gen_len, gen_pos,
                   thread_number, queue_backlog, pauses, d_after_stop>>
    /\ UNCHANGED <<qvars, rvars, cvars, dvars, wvars>>

\* lines 28-36: one iteration of the for loop, or its end
GenPull ==
    /\ g_pc = "batch"
    /\ IF g_batch = 0
       THEN /\ g_pc' = "check"
            /\ UNCHANGED <<g_batch, gen_pos, input_queue>>
       ELSE IF pause_event \/ gen_pos = gen_len
       THEN /\ g_pc' = "done"
            /\ UNCHANGED <<g_batch, gen_pos, input_queue>>
       ELSE /\ input_queue' =
                  Append(input_queue,
                         Triple(ResultTask(GenTask(gen_pos + 1)), None, MetaGenerator))
            /\ gen_pos' = gen_pos + 1
            /\ g_batch' = g_batch - 1
            /\ UNCHANGED g_pc
    /\ UNCHANGED <<stop_event, pause_event, d_pc, d_msg, gen_len,
                   thread_number, queue_backlog, pauses, d_after_stop, g_after_stop>>
    /\ UNCHANGED <<task_queue, stat, parser_input, fatal_error_queue, parser_errors,
                   raised, handled, network_try_limit>>
    /\ UNCHANGED <<qvars, rvars, cvars, wvars>>

\* ---- TaskDispatcherService.worker_callback
\* line 21: the loop test
DispCheck ==
    /\ d_pc = "check"
    /\ d_pc' = IF LoopContinues(stop_event) THEN "pause" ELSE "done"
    /\ UNCHANGED <<stop_event, pause_event, d_msg, g_pc, g_batch, gen_len, gen_pos,
                   thread_number, queue_backlog, pauses, d_after_stop, g_after_stop>>
    /\ UNCHANGED <<qvars, rvars, cvars, dvars, wvars>>

\* line 22: worker.process_pause_signal()
DispPause ==
    /\ d_pc = "pause"
    /\ ~pause_event
    /\ d_pc' = "get"
    /\ UNCHANGED <<stop_event, pause_event, d_msg, g_pc, g_batch, gen_len, gen_pos,
                   thread_number, queue_backlog, pauses, d_after_stop, g_after_stop>>
    /\ UNCHANGED <<qvars, rvars, cvars, dvars, wvars>>

\* lines 23-26: input_queue.get(True, 0.1) gives a triple or times out
DispGet ==
    /\ d_pc = "get"
    /\ IF input_queue = <<>>
       THEN /\ d_pc' = "check"
            /\ UNCHANGED <<d_msg, input_queue>>
       ELSE /\ d_msg' = Some(Head(input_queue))
            /\ input_queue' = Tail(input_queue)
            /\ d_pc' = "process"
    /\ UNCHANGED <<stop_event, pause_event, g_pc, g_batch, gen_len, gen_pos,
                   thread_number, queue_backlog, pauses, d_after_stop, g_after_stop>>
    /\ UNCHANGED <<task_queue, stat, parser_input, fatal_error_queue, parser_errors,
                   raised, handled, network_try_limit>>
    /\ UNCHANGED <<qvars, rvars, cvars, wvars>>

\* lines 27-28: process_service_result(result, task, meta); an exception
\* leaving it ends worker_callback
DispProcess ==
    /\ d_pc = "process"
    /\ LET m == d_msg[1]
           out == process_service_result(m.result, m.task, m.meta, network_try_limit)
       IN /\ Effects(out)
          /\ handled' = Append(handled, m)
          /\ d_pc' = IF out.raised = "none" THEN "check" ELSE "done"
    /\ d_msg' = None
    /\ d_after_stop' = IF stop_event THEN d_after_stop + 1 ELSE d_after_stop
    /\ UNCHANGED <<input_queue, network_try_limit>>
    /\ UNCHANGED <<stop_event, pause_event, g_pc, g_batch, gen_len, gen_pos,
                   thread_number, queue_backlog, pauses, g_after_stop>>
    /\ UNCHANGED <<qvars, rvars, cvars, wvars>>

\* ---- the spider's signals
\* shutdown: stop_event.set()
SetStop ==
    /\ ~stop_event
    /\ stop_event' = TRUE
    /\ UNCHANGED <<pause_event, d_pc, d_msg, g_pc, g_batch, gen_len, gen_pos,
                   thread_number, queue_backlog, pauses, d_after_stop, g_after_stop>>
    /\ UNCHANGED <<qvars, rvars, cvars, dvars, wvars>>

\* pause_event.set()
Pause ==
    /\ ~pause_event
    /\ pauses < MaxPauses
    /\ pause_event' = TRUE
    /\ pauses' = pauses + 1
    /\ UNCHANGED <<stop_event, d_pc, d_msg, g_pc, g_batch, gen_len, gen_pos,
                   thread_number, queue_backlog, d_after_stop, g_after_stop>>
    /\ UNCHANGED <<qvars, rvars, cvars, dvars, wvars>>

\* pause_event.clear(): the workers are resumed
Resume ==
    /\ pause_event
    /\ pause_event' = FALSE
    /\ UNCHANGED <<stop_event, d_pc, d_msg, g_pc, g_batch, gen_len, gen_pos,
                   thread_number, queue_backlog, pauses, d_after_stop, g_after_stop>>
    /\ UNCHANGED <<qvars, rvars, cvars, dvars, wvars>>

GenStep == GenCheck \/ GenPause \/ GenSize \/ GenPull

DispStep == DispCheck \/ DispPause \/ DispGet \/ DispProcess

\* a spider whose task queue is empty, one pull short of the threshold, or full
InitWorkers ==
    /\ QueueStart /\ ClientStart /\ ClientsStart /\ SpiderIdle
    /\ network_try_limit = 1
    /\ gen_len \in 0..MaxGen
    /\ thread_number \in {1, 101}
    /\ queue_backlog \in {0, Max(MinThreshold, thread_number * 2) - 1,
                          Max(MinThreshold, thread_number * 2)}

NextWorkers ==
    \/ GenCheck
    \/ GenPause
    \/ GenSize
    \/ GenPull
    \/ DispCheck
    \/ DispPause
    \/ DispGet
    \/ DispProcess
    \/ SetStop
    \/ Pause
    \/ Resume

\* both worker threads keep being scheduled, and a paused spider is resumed
FairWorkers == WF_vars(GenStep) /\ WF_vars(DispStep) /\ WF_vars(Resume)

SpecWorkers == InitWorkers /\ [][NextWorkers]_vars /\ FairWorkers

\* a long task generator in front of an empty task queue; no signal is given
InitBackpressure ==
    /\ QueueStart /\ ClientStart /\ ClientsStart /\ SpiderIdle
    /\ network_try_limit = 1
    /\ gen_len = LongGen
    /\ thread_number = 1
    /\ queue_backlog = 0

NextBackpressure == GenStep \/ DispStep

SpecBackpressure == InitBackpressure /\ [][NextBackpressure]_vars

\* ----------------------------------------------------- worker properties
\* the triples put on the dispatcher's input so far, in order
PutOnInput ==
    handled \o (IF d_msg = None THEN <<>> ELSE <<d_msg[1]>>) \o input_queue

\* C15: the generator worker terminates only when the user generator is
\* exhausted or stop_event is set, and the tasks it has put on the dispatcher
\* input are the tasks the generator yielded so far, once each and in order.
C15_GeneratorRunsToExhaustion ==
    /\ g_pc = "done" => (stop_event \/ gen_pos = gen_len)
    /\ PutOnInput =
          [k \in 1..gen_pos |-> Triple(ResultTask(GenTask(k)), None, MetaGenerator)]

C20_BacklogBounded ==
    Len(input_queue) + Len(task_queue) <= Max(200, 2 * thread_number)

====
